---- MODULE Spec2Model ----
(***************************************************************************)
(* Orthographic sphere ray tracer: the original sequential program         *)
(* (rt.original/rt/rt/rt.cpp) and the reworked OpenCL host program         *)
(* (rt.reworked/rt.cpp).                                                   *)
(*                                                                         *)
(* Single-precision floats are modelled as fixed-point integers in units   *)
(* of 1/Q.  Q = 40 makes 0.1, 0.5, 1.5, 1/8 and the squares of half-       *)
(* integers exact, so every product the model forms from its inputs is     *)
(* exact; sqrt and rand()/RAND_MAX round down to the grid.                 *)
(***************************************************************************)
EXTENDS Integers, Naturals, Sequences, FiniteSets, TLC

VARIABLES
  \* ---- intersect_sphere called on its own
  ipc, isphere, iray, iret,
  \* ---- scene generation, original (O) and reworked (R) process
  numSpheres, gpcO, rngO, giO, spheresO, gpcR, rngR, giR, spheresR, capR,
  \* ---- original trace(): loop counters, the ray, idx, the image
  scene, pc, i, j, k, r, idx, img, nwrites,
  \* ---- kernel work items of the dispatched trace
  kdone, devOut, devWrites,
  \* ---- reworked main(): host position, OpenCL objects, queues, sink
  hpc, cl, cmds, himg, sink

isectVars == <<ipc, isphere, iray, iret>>
genVars   == <<numSpheres, gpcO, rngO, giO, spheresO, gpcR, rngR, giR, spheresR, capR>>
seqVars   == <<pc, i, j, k, r, idx, img, nwrites>>
devVars   == <<kdone, devOut, devWrites>>
hostVars  == <<hpc, cl, cmds, himg, sink>>
vars      == <<isectVars, genVars, scene, seqVars, devVars, hostVars>>

----------------------------------------------------------------------------
(* Fixed-point floats *)

Q == 8 * 5

\* the float with integer value n
Fl(n) == n * Q

fmul(x, y) == (x * y) \div Q

fdiv(x, y) == (x * Q) \div y

RECURSIVE SqrtSearch(_, _, _)
SqrtSearch(n, lo, hi) ==
  IF lo >= hi THEN lo
  ELSE LET mid == (lo + hi + 1) \div 2
       IN IF mid * mid <= n THEN SqrtSearch(n, mid, hi)
                            ELSE SqrtSearch(n, lo, mid - 1)

\* std::sqrt on a non-negative float, rounded down to the grid
fsqrt(x) == SqrtSearch(x * Q, 0, 8192)

\* the content of a float that was declared and never assigned
Undef == 0 - 1000000000

----------------------------------------------------------------------------
(* Camera window *)

LEFT   == Fl(-10)
BOTTOM == Fl(-10)
WIDTH  == Fl(20)
HEIGHT == Fl(20)
NEAR   == Fl(-10)
FAR    == Fl(10)

\* 0.1f, the background component
BackComp == Q \div 10

Background == <<BackComp, BackComp, BackComp>>

----------------------------------------------------------------------------
(* solve_quadratic and intersect_sphere *)

\* x1, x2 are the reference parameters' contents on entry
solve_quadratic(a, b, c, x1, x2) ==
  LET d == fmul(b, b) - fmul(fmul(Fl(4), a), c)
  IN IF d < 0
     THEN [ok |-> FALSE, x1 |-> x1, x2 |-> x2]
     ELSE LET den == fdiv(Fl(1), fmul(Fl(2), a))
          IN [ok |-> TRUE,
              x1 |-> fmul((0 - b) - fsqrt(d), den),
              x2 |-> fmul((0 - b) + fsqrt(d), den)]

\* the translated copy rtemp of the ray
RayTemp(sphere, ray) ==
  [ray EXCEPT !.ox = ray.ox - sphere.cx,
              !.oy = ray.oy - sphere.cy,
              !.oz = ray.oz - sphere.cz]

\* the coefficients a, b, c of the quadratic
Coeffs(sphere, ray) ==
  LET rtemp == RayTemp(sphere, ray)
  IN [a |-> fmul(rtemp.dx, rtemp.dx) + fmul(rtemp.dy, rtemp.dy) + fmul(rtemp.dz, rtemp.dz),
      b |-> fmul(Fl(2), fmul(rtemp.ox, rtemp.dx) + fmul(rtemp.oy, rtemp.dy)
                        + fmul(rtemp.oz, rtemp.dz)),
      c |-> fmul(rtemp.ox, rtemp.ox) + fmul(rtemp.oy, rtemp.oy) + fmul(rtemp.oz, rtemp.oz)
            - fmul(sphere.radius, sphere.radius)]

\* t0, t1 as solve_quadratic leaves them; they enter it unassigned
Roots(sphere, ray) ==
  LET q == Coeffs(sphere, ray) IN solve_quadratic(q.a, q.b, q.c, Undef, Undef)

\* RayAfterHit without the fall-back to the exit point
RayAfterHitEntryOnly(ray, t0, t1) == [ray EXCEPT !.maxt = t0]

\* the value intersect_sphere leaves in r, given the roots
RayAfterHit(ray, t0, t1) == [ray EXCEPT !.maxt = IF t0 > 0 THEN t0 ELSE t1]

\* the test that rejects a sphere with real roots
Rejects(ray, t0, t1) == t0 > ray.maxt \/ t1 < 0

\* returns the bool and the ray as the call leaves it
intersect_sphere(sphere, ray) ==
  LET q == Roots(sphere, ray)
  IN IF q.ok
     THEN IF Rejects(ray, q.x1, q.x2)
          THEN [hit |-> FALSE, r |-> ray]
          ELSE [hit |-> TRUE, r |-> RayAfterHit(ray, q.x1, q.x2)]
     ELSE [hit |-> FALSE, r |-> ray]

----------------------------------------------------------------------------
(* Scene generation *)

RAND_MAX == 32767

\* srand(0x88e8fff4): the seed, reduced modulo the generator's modulus
kSeed == 30476

\* std::rand(): the generator's next state (a linear congruential generator
\* stands for the library's)
Rand(state) == (state * 75 + 74) % 65537

\* the value a call of std::rand() returns, given the state it moved to
RandValue(state) == state % (RAND_MAX + 1)

\* ((float) value) / RAND_MAX
RAND_FLOAT(value) == fdiv(Fl(value), Fl(RAND_MAX))

\* rand_float() of the reworked sphere class
rand_float(value) == fdiv(Fl(value), Fl(RAND_MAX))

\* the state after n more calls of std::rand()
RECURSIVE RandN(_, _)
RandN(state, n) == IF n = 0 THEN state ELSE RandN(Rand(state), n - 1)

\* the body of the loop of the original generate_spheres: the sphere it
\* fills and the generator's state after its seven draws
GenSphere(state) ==
  LET u(n) == RAND_FLOAT(RandValue(RandN(state, n)))
  IN [sphere |-> [cx |-> fmul(u(1), Fl(20)) - Fl(10),
                  cy |-> fmul(u(2), Fl(20)) - Fl(10),
                  cz |-> fmul(u(3), Fl(20)) - Fl(5),
                  radius |-> fmul(u(4) + Q \div 10, (3 * Q) \div 2),
                  r |-> u(5), g |-> u(6), b |-> u(7)],
      rng |-> RandN(state, 7)]

\* sphere::sphere() of the reworked program
SphereCtor(state) ==
  LET u(n) == rand_float(RandValue(RandN(state, n)))
  IN [sphere |-> [cx |-> fmul(u(1), Fl(20)) - Fl(10),
                  cy |-> fmul(u(2), Fl(20)) - Fl(10),
                  cz |-> fmul(u(3), Fl(20)) - Fl(5),
                  radius |-> fmul(u(4) + Q \div 10, (3 * Q) \div 2),
                  r |-> u(5), g |-> u(6), b |-> u(7)],
      rng |-> RandN(state, 7)]

\* std::vector<sphere> spheres(n): n value-initialised spheres
ZeroSphere == [cx |-> 0, cy |-> 0, cz |-> 0, radius |-> 0, r |-> 0, g |-> 0, b |-> 0]

\* reserve() that rounds the request up to an even capacity
ReserveRounded(cap, n) == IF n > cap THEN n + (n % 2) ELSE cap

\* capacity() after spheres.reserve(n): the libraries the program builds
\* with allocate exactly n for a vector that held less
Reserve(cap, n) == IF n > cap THEN n ELSE cap

\* capacity() after emplace_back on a vector of the given size
GrowCapacity(cap, size) == IF size < cap THEN cap ELSE IF cap = 0 THEN 1 ELSE 2 * cap

----------------------------------------------------------------------------
(* Image and scene sizes (the program's 2048 x 2048 x 512, scaled down) *)

kImageWidth == 2

kImageHeight == 1

\* longest scene handed to trace()
MaxSpheres == 3

\* longest scene rendered by both the sequential and the dispatched trace
MaxParSpheres == 2

Pixels == (0 .. kImageWidth - 1) \X (0 .. kImageHeight - 1)

ImgSize == kImageWidth * kImageHeight * 3

\* std::vector<float> img(n): n value-initialised floats
ZeroImg == [n \in 0 .. ImgSize - 1 |-> 0]

Sph(cx, cy, cz, radius, cr, cg, cb) ==
  [cx |-> Fl(cx), cy |-> Fl(cy), cz |-> Fl(cz), radius |-> Fl(radius),
   r |-> cr, g |-> cg, b |-> cb]

\* Spheres a scene is drawn from: one in front of pixel (0,0), one behind it
\* on the same ray, one containing every ray origin, one past the far plane.
Near == Sph(-5, 0, 0, 2, Q, 0, 0)

Behind == Sph(-5, 0, 6, 2, 0, Q, 0)

Around == Sph(0, 0, 0, 20, Q, Q, 0)

Beyond == Sph(5, 0, 24, 2, 0, Q, Q)

Palette == { Near, Behind, Around, Beyond }

ParPalette == { Near, Behind, Around }

RECURSIVE SeqsUpTo(_, _)
SeqsUpTo(S, n) ==
  IF n = 0 THEN { <<>> }
  ELSE LET shorter == SeqsUpTo(S, n - 1)
       IN shorter \cup { Append(s, x) : s \in { t \in shorter : Len(t) = n - 1 }, x \in S }

Scenes == SeqsUpTo(Palette, MaxSpheres)

ParScenes == SeqsUpTo(ParPalette, MaxParSpheres)

----------------------------------------------------------------------------
(* trace(): the original sequential driver *)

\* the ray of pixel (pi, pj)
MakeRay(pi, pj) ==
  [ox |-> LEFT + fmul(fdiv(WIDTH, Fl(kImageWidth)), Fl(pi) + Q \div 2),
   oy |-> BOTTOM + fmul(fdiv(HEIGHT, Fl(kImageHeight)), Fl(pj) + Q \div 2),
   oz |-> NEAR,
   dx |-> 0, dy |-> 0, dz |-> Fl(1),
   maxt |-> FAR - NEAR]

\* ImgIndex with the stride of a two-component pixel
ImgIndexStride2(pi, pj) == (pj * kImageWidth + pi) * 2

\* index of the first component of pixel (pi, pj) in img
ImgIndex(pi, pj) == (pj * kImageWidth + pi) * 3

\* PixelColor with the test idx >= 0
PixelColorFromZero(spheres, n) ==
  IF n >= 0 THEN <<spheres[n + 1].r, spheres[n + 1].g, spheres[n + 1].b>>
  ELSE Background

\* PixelColor that leaves a missed pixel at the vector's initial zeros
PixelColorNoBackground(spheres, n) ==
  IF n > 0 THEN <<spheres[n + 1].r, spheres[n + 1].g, spheres[n + 1].b>>
  ELSE <<0, 0, 0>>

\* PixelColor that colours a pixel by the sphere before the recorded one
PixelColorOffByOne(spheres, n) ==
  IF n > 0 THEN <<spheres[n].r, spheres[n].g, spheres[n].b>>
  ELSE Background

\* the three components trace() stores for a pixel whose scan ended with index n
PixelColor(spheres, n) ==
  IF n > 0 THEN <<spheres[n + 1].r, spheres[n + 1].g, spheres[n + 1].b>>
  ELSE Background

StoreAt(buf, at, col) ==
  [buf EXCEPT ![at] = col[1], ![at + 1] = col[2], ![at + 2] = col[3]]

CountAt(cnt, at) ==
  [cnt EXCEPT ![at] = @ + 1, ![at + 1] = @ + 1, ![at + 2] = @ + 1]

NoRay == [ox |-> 0, oy |-> 0, oz |-> 0, dx |-> 0, dy |-> 0, dz |-> 0, maxt |-> 0]

\* loop head of the two for loops: build the ray of pixel (i, j)
BeginPixel ==
  /\ pc = "pixel"
  /\ i < kImageWidth /\ j < kImageHeight
  /\ r' = MakeRay(i, j)
  /\ idx' = -1
  /\ k' = 0
  /\ pc' = "scan"
  /\ UNCHANGED <<i, j, img, nwrites>>

\* one iteration of the loop over k
ScanSphere ==
  /\ pc = "scan"
  /\ k < Len(scene)
  /\ LET res == intersect_sphere(scene[k + 1], r)
     IN /\ r' = res.r
        /\ idx' = IF res.hit THEN k ELSE idx
  /\ k' = k + 1
  /\ UNCHANGED <<pc, i, j, img, nwrites>>

\* the store into img after the scan
WritePixel ==
  /\ pc = "scan"
  /\ k = Len(scene)
  /\ img' = StoreAt(img, ImgIndex(i, j), PixelColor(scene, idx))
  /\ nwrites' = CountAt(nwrites, ImgIndex(i, j))
  /\ pc' = "next"
  /\ UNCHANGED <<i, j, k, r, idx>>

\* ++j, and ++i when the inner loop ends
NextPixel ==
  /\ pc = "next"
  /\ IF j + 1 < kImageHeight
     THEN /\ j' = j + 1 /\ i' = i /\ pc' = "pixel"
     ELSE /\ j' = 0 /\ i' = i + 1
          /\ pc' = IF i + 1 < kImageWidth THEN "pixel" ELSE "done"
  /\ UNCHANGED <<k, r, idx, img, nwrites>>

SeqFrame == UNCHANGED <<isectVars, genVars, scene, devVars, hostVars>>

NextSeq ==
  \/ BeginPixel /\ SeqFrame
  \/ ScanSphere /\ SeqFrame
  \/ WritePixel /\ SeqFrame
  \/ NextPixel /\ SeqFrame

----------------------------------------------------------------------------
(* The dispatched trace: one work item per point of NDRange(W, H) *)

\* index recorded by a work item's scan of spheres n .. Len(spheres)
RECURSIVE KernelScan(_, _, _, _)
KernelScan(spheres, n, ray, found) ==
  IF n > Len(spheres) THEN found
  ELSE LET res == intersect_sphere(spheres[n], ray)
       IN KernelScan(spheres, n + 1, res.r, IF res.hit THEN n - 1 ELSE found)

KernelColor(spheres, n) ==
  IF n > 0 THEN <<spheres[n + 1].r, spheres[n + 1].g, spheres[n + 1].b>>
  ELSE Background

KernelIndex(gi, gj) == (gj * kImageWidth + gi) * 3

\* the device buffer before any work item has stored into it
FreshBuf == [n \in 0 .. ImgSize - 1 |-> Undef]

NoWrites == [n \in 0 .. ImgSize - 1 |-> 0]

\* one work item of the kernel at the head of the in-order queue
WorkItem(gi, gj) ==
  /\ cmds # <<>> /\ Head(cmds) = "kernel"
  /\ <<gi, gj>> \notin kdone
  /\ devOut' = StoreAt(devOut, KernelIndex(gi, gj),
                       KernelColor(scene, KernelScan(scene, 1, MakeRay(gi, gj), -1)))
  /\ devWrites' = CountAt(devWrites, KernelIndex(gi, gj))
  /\ kdone' = kdone \cup {<<gi, gj>>}
  /\ UNCHANGED <<cmds, himg>>

\* the kernel command completes when its last work item has
KernelComplete ==
  /\ cmds # <<>> /\ Head(cmds) = "kernel"
  /\ kdone = Pixels
  /\ cmds' = Tail(cmds)
  /\ UNCHANGED <<devVars, himg>>

\* the read command copies the device buffer into the host vector
ReadBack ==
  /\ cmds # <<>> /\ Head(cmds) = "read"
  /\ himg' = devOut
  /\ cmds' = Tail(cmds)
  /\ UNCHANGED devVars

DevFrame == UNCHANGED <<isectVars, genVars, scene, seqVars, hpc, cl, sink>>

NextDev ==
  \/ (\E p \in Pixels : WorkItem(p[1], p[2])) /\ DevFrame
  \/ KernelComplete /\ DevFrame
  \/ ReadBack /\ DevFrame

----------------------------------------------------------------------------
(* Specifications of the trace *)

IdleIsect == ipc = "off" /\ isphere = Near /\ iray = NoRay /\ iret = [hit |-> FALSE, r |-> NoRay]

IdleGen ==
  /\ numSpheres = 0
  /\ gpcO = "off" /\ rngO = 0 /\ giO = 0 /\ spheresO = <<>>
  /\ gpcR = "off" /\ rngR = 0 /\ giR = 0 /\ spheresR = <<>> /\ capR = 0

\* nothing has been handed to the image sink
NoSink == [handed |-> FALSE, img |-> ZeroImg, pending |-> <<>>]

IdleHost == hpc = "off" /\ cl = {} /\ sink = NoSink

InitSeq ==
  /\ pc = IF kImageWidth > 0 THEN "pixel" ELSE "done"
  /\ i = 0 /\ j = 0 /\ k = 0 /\ r = NoRay /\ idx = -1
  /\ img = ZeroImg /\ nwrites = NoWrites

InitDev == kdone = {} /\ devOut = FreshBuf /\ devWrites = NoWrites

\* trace() alone, on every scene up to MaxSpheres
InitTrace ==
  /\ IdleIsect /\ IdleGen /\ IdleHost
  /\ scene \in Scenes
  /\ InitSeq /\ InitDev
  /\ cmds = <<>> /\ himg = ZeroImg

SpecTrace == InitTrace /\ [][NextSeq]_vars

\* trace() next to the dispatched kernel and its read-back, on the same scene
InitPar ==
  /\ IdleIsect /\ IdleGen /\ IdleHost
  /\ scene \in ParScenes
  /\ InitSeq /\ InitDev
  /\ cmds = <<"kernel", "read">> /\ himg = ZeroImg

SpecPar == InitPar /\ [][NextSeq \/ NextDev]_vars

----------------------------------------------------------------------------
(* Properties of the trace *)

PixelOf(n) == <<(n \div 3) % kImageWidth, (n \div 3) \div kImageWidth>>

\* pixel (pi, pj) has been stored by the sequential loops (i outer, j inner)
StoredSeq(pi, pj) ==
  \/ pi < i
  \/ pi = i /\ pj < j
  \/ pi = i /\ pj = j /\ pc = "next"

Triple(buf, pi, pj) ==
  LET at == (pj * kImageWidth + pi) * 3 IN <<buf[at], buf[at + 1], buf[at + 2]>>

HitDist(sphere, ray) ==
  LET q == Roots(sphere, ray) IN IF q.x1 > 0 THEN q.x1 ELSE q.x2

\* the spheres the fresh ray hits within the far plane (1-based positions)
HitsWithinFar(spheres, ray) ==
  { n \in 1 .. Len(spheres) :
      LET q == Roots(spheres[n], ray)
      IN q.ok /\ q.x2 >= 0 /\ HitDist(spheres[n], ray) <= FAR - NEAR }

NearestHits(spheres, ray) ==
  { n \in HitsWithinFar(spheres, ray) :
      \A m \in HitsWithinFar(spheres, ray) :
         HitDist(spheres[n], ray) <= HitDist(spheres[m], ray) }

\* C2: when the ray hits a sphere within the far plane, the index recorded by
\* the scan is that of the sphere with the smallest hit distance, and the
\* highest such index among equals.
C2_LastHitIsNearest ==
  (pc = "next" /\ HitsWithinFar(scene, MakeRay(i, j)) # {}) =>
     \E n \in NearestHits(scene, MakeRay(i, j)) :
        /\ idx = n - 1
        /\ \A m \in NearestHits(scene, MakeRay(i, j)) : m <= n

\* C3: a call of intersect_sphere in the scan never increases ray.maxt.
C3_MaxtNeverIncreases == [][ScanSphere => r'.maxt <= r.maxt]_vars

C5_MissIsBackground ==
  /\ (pc = "next" /\ \A n \in 1 .. Len(scene) :
                        ~intersect_sphere(scene[n], MakeRay(i, j)).hit)
        => Triple(img, i, j) = Background
  /\ (pc = "done" /\ scene = <<>>) => \A n \in 0 .. ImgSize - 1 : img[n] = BackComp

C5_Witness ==
  /\ pc = "next" /\ Len(scene) = MaxSpheres
  /\ \A n \in 1 .. Len(scene) : ~intersect_sphere(scene[n], MakeRay(i, j)).hit
  /\ \E n \in 1 .. Len(scene) : Roots(scene[n], MakeRay(i, j)).ok

----------------------------------------------------------------------------
(* intersect_sphere on its own *)

IsectSpheres ==
  { Near, Behind, Around, Beyond,
    Sph(-5, 0, -20, 2, Q, 0, Q),
    Sph(-5, 0, -10, 3, 0, 0, Q),
    Sph(5, 0, -8, 2, Q, Q, Q) }

IsectRays ==
  { [ox |-> ox, oy |-> 0, oz |-> NEAR, dx |-> 0, dy |-> 0, dz |-> dz, maxt |-> maxt] :
      ox \in {Fl(-5), Fl(5)}, dz \in {Fl(1), Fl(-1), Fl(2)},
      maxt \in {FAR - NEAR, Fl(9), Fl(2)} }

InitIsect ==
  /\ ipc = "call"
  /\ isphere \in IsectSpheres
  /\ iray \in IsectRays
  /\ iret = [hit |-> FALSE, r |-> NoRay]
  /\ IdleGen /\ IdleHost
  /\ scene = <<>> /\ InitSeq /\ InitDev
  /\ cmds = <<>> /\ himg = ZeroImg

\* the call intersect_sphere(isphere, iray); the sphere is a const reference
Intersect ==
  /\ ipc = "call"
  /\ iret' = intersect_sphere(isphere, iray)
  /\ ipc' = "ret"
  /\ UNCHANGED <<isphere, iray, genVars, scene, seqVars, devVars, hostVars>>

SpecIsect == InitIsect /\ [][Intersect]_vars

\* b*b - 4*a*c of the quadratic of a sphere and a ray
Discriminant(sphere, ray) ==
  LET q == Coeffs(sphere, ray) IN fmul(q.b, q.b) - fmul(fmul(Fl(4), q.a), q.c)

\* C10: intersect_sphere returns false and leaves the ray as it was when the
\* quadratic has no real roots, or t0 > maxt, or t1 < 0; otherwise it returns
\* true and changes maxt alone, to t0 when t0 > 0 and to t1 when not.
C10_IntersectFrame ==
  ipc = "ret" =>
    IF \/ Discriminant(isphere, iray) < 0
       \/ Roots(isphere, iray).x1 > iray.maxt
       \/ Roots(isphere, iray).x2 < 0
    THEN iret.hit = FALSE /\ iret.r = iray
    ELSE /\ iret.hit = TRUE
         /\ iret.r.maxt = IF Roots(isphere, iray).x1 > 0
                          THEN Roots(isphere, iray).x1 ELSE Roots(isphere, iray).x2
         /\ \A f \in {"ox", "oy", "oz", "dx", "dy", "dz"} : iret.r[f] = iray[f]

C10_Witness ==
  /\ ipc = "ret" /\ iret.hit
  /\ Roots(isphere, iray).x1 <= 0
  /\ iret.r.maxt > iray.maxt

----------------------------------------------------------------------------
(* Scene generation of the two programs, side by side *)

\* largest sphere count generated
MaxGen == 4

\* states std::rand() may be in before the program seeds it
PriorRng == {1, 12345}

InitGen ==
  /\ numSpheres \in 0 .. MaxGen
  /\ gpcO = "srand" /\ rngO \in PriorRng /\ giO = 0
  /\ spheresO = [n \in 1 .. numSpheres |-> ZeroSphere]
  /\ gpcR = "srand" /\ rngR \in PriorRng /\ giR = 0
  /\ spheresR = <<>> /\ capR = 0
  /\ IdleIsect /\ IdleHost
  /\ scene = <<>> /\ InitSeq /\ InitDev
  /\ cmds = <<>> /\ himg = ZeroImg

\* original generate_spheres: std::srand(0x88e8fff4)
SrandO ==
  /\ gpcO = "srand"
  /\ rngO' = kSeed
  /\ giO' = 0
  /\ gpcO' = "loop"
  /\ UNCHANGED <<numSpheres, spheresO, gpcR, rngR, giR, spheresR, capR>>

\* original generate_spheres: one iteration of the loop, or its exit
FillSphereO ==
  /\ gpcO = "loop"
  /\ IF giO < numSpheres
     THEN /\ spheresO' = [spheresO EXCEPT ![giO + 1] = GenSphere(rngO).sphere]
          /\ rngO' = GenSphere(rngO).rng
          /\ giO' = giO + 1
          /\ gpcO' = gpcO
     ELSE /\ gpcO' = "done"
          /\ UNCHANGED <<spheresO, rngO, giO>>
  /\ UNCHANGED <<numSpheres, gpcR, rngR, giR, spheresR, capR>>

\* reworked main: std::srand(0x88e8fff4), the empty vector and reserve()
SrandR ==
  /\ gpcR = "srand"
  /\ rngR' = kSeed
  /\ spheresR' = <<>>
  /\ capR' = Reserve(0, numSpheres)
  /\ giR' = 0
  /\ gpcR' = "loop"
  /\ UNCHANGED <<numSpheres, gpcO, rngO, giO, spheresO>>

\* reworked generate_spheres: one emplace_back, or the loop's exit
EmplaceR ==
  /\ gpcR = "loop"
  /\ IF giR < capR
     THEN /\ capR' = GrowCapacity(capR, Len(spheresR))
          /\ spheresR' = Append(spheresR, SphereCtor(rngR).sphere)
          /\ rngR' = SphereCtor(rngR).rng
          /\ giR' = giR + 1
          /\ gpcR' = gpcR
     ELSE /\ gpcR' = "done"
          /\ UNCHANGED <<spheresR, rngR, giR, capR>>
  /\ UNCHANGED <<numSpheres, gpcO, rngO, giO, spheresO>>

GenFrame == UNCHANGED <<isectVars, scene, seqVars, devVars, hostVars>>

NextGen ==
  \/ SrandO /\ GenFrame
  \/ FillSphereO /\ GenFrame
  \/ SrandR /\ GenFrame
  \/ EmplaceR /\ GenFrame

SpecGen == InitGen /\ [][NextGen]_vars

\* the uniform value of draw number d (from 0) after seeding
Uniform(d) == (RandValue(RandN(kSeed, d + 1)) * Q * Q) \div (RAND_MAX * Q)

\* field number f (cx, cy, cz, radius, r, g, b) as a function of its draw
FieldOfDraw(f, u) ==
  CASE f \in {0, 1} -> (u * 20 * Q) \div Q - 10 * Q
    [] f = 2 -> (u * 20 * Q) \div Q - 5 * Q
    [] f = 3 -> ((u + Q \div 10) * ((3 * Q) \div 2)) \div Q
    [] OTHER -> u

FieldNames == <<"cx", "cy", "cz", "radius", "r", "g", "b">>

\* C9: both programs end with exactly numSpheres spheres, field f of sphere n
\* being the image of draw 7n + f after seeding, the generator having been
\* called 7 * numSpheres times; so the two scenes are the same.
C9_SameDeterministicScene ==
  (gpcO = "done" /\ gpcR = "done") =>
     /\ Len(spheresO) = numSpheres /\ Len(spheresR) = numSpheres
     /\ spheresO = spheresR
     /\ rngO = RandN(kSeed, 7 * numSpheres) /\ rngR = rngO
     /\ \A n \in 0 .. numSpheres - 1 : \A f \in 0 .. 6 :
          /\ spheresO[n + 1][FieldNames[f + 1]] = FieldOfDraw(f, Uniform(7 * n + f))
          /\ spheresR[n + 1][FieldNames[f + 1]] = FieldOfDraw(f, Uniform(7 * n + f))

C9_Witness ==
  /\ gpcO = "done" /\ gpcR = "done" /\ numSpheres = MaxGen
  /\ spheresR[1] # spheresR[2]

----------------------------------------------------------------------------
(* main() of the reworked program *)

\* spheres generated by the reworked program
kNumSpheres == 2

\* cl holds the OpenCL objects that were created valid and the commands that
\* were accepted; a call that fails returns its error in err, which main()
\* never reads

InitCL ==
  /\ hpc = "platform" /\ cl = {} /\ sink = NoSink
  /\ cmds = <<>> /\ himg = ZeroImg
  /\ numSpheres = kNumSpheres
  /\ gpcO = "off" /\ rngO = 0 /\ giO = 0 /\ spheresO = <<>>
  /\ gpcR = "srand" /\ rngR \in PriorRng /\ giR = 0 /\ spheresR = <<>> /\ capR = 0
  /\ IdleIsect
  /\ scene = <<>> /\ InitSeq /\ InitDev

Exited == hpc \in {"exit", "crash", "done"}

\* cl::Platform::get, and exit(1) when there is no platform
GetPlatform ==
  /\ hpc = "platform"
  /\ \E found \in BOOLEAN : hpc' = IF found THEN "device" ELSE "exit"
  /\ UNCHANGED <<cl, cmds, himg, sink, scene>>

\* getDevices(CL_DEVICE_TYPE_GPU) and devices.front(); front() of an empty
\* vector is undefined: the process may die or go on with no valid device
GetDevice ==
  /\ hpc = "device"
  /\ \E gpu \in BOOLEAN :
       IF gpu THEN cl' = cl \cup {"device"} /\ hpc' = "program"
       ELSE cl' = cl /\ hpc' \in {"program", "crash"}
  /\ UNCHANGED <<cmds, himg, sink, scene>>

\* trace.cl is read, the context and the program are made, build() is called
BuildProgram ==
  /\ hpc = "program"
  /\ \E built \in BOOLEAN :
       cl' = IF built /\ "device" \in cl THEN cl \cup {"program"} ELSE cl
  /\ hpc' = "kernel"
  /\ UNCHANGED <<cmds, himg, sink, scene>>

\* cl::Kernel kernel(program, "trace", &err)
CreateKernel ==
  /\ hpc = "kernel"
  /\ cl' = IF "program" \in cl THEN cl \cup {"kernel"} ELSE cl
  /\ hpc' = "data"
  /\ UNCHANGED <<cmds, himg, sink, scene>>

\* srand, reserve and generate_spheres run as SrandR and EmplaceR
GenerateScene ==
  \/ hpc = "data" /\ SrandR /\ GenFrame
  \/ hpc = "data" /\ EmplaceR /\ GenFrame

\* std::vector<float> img(W * H * 3), once the spheres are generated
AllocImage ==
  /\ hpc = "data" /\ gpcR = "done"
  /\ scene' = spheresR
  /\ himg' = ZeroImg
  /\ hpc' = "buffers"
  /\ UNCHANGED <<cl, cmds, sink>>

\* in_buf and out_buf
CreateBuffers ==
  /\ hpc = "buffers"
  /\ \E made \in BOOLEAN :
       cl' = IF made /\ "device" \in cl THEN cl \cup {"bufs"} ELSE cl
  /\ hpc' = "args"
  /\ UNCHANGED <<cmds, himg, sink, scene>>

\* kernel.setArg(0, in_buf); kernel.setArg(1, out_buf)
SetArgs ==
  /\ hpc = "args"
  /\ cl' = IF {"kernel", "bufs"} \subseteq cl THEN cl \cup {"args"} ELSE cl
  /\ hpc' = "queue"
  /\ UNCHANGED <<cmds, himg, sink, scene>>

\* cl::CommandQueue queue(context, device)
CreateQueue ==
  /\ hpc = "queue"
  /\ \E made \in BOOLEAN :
       cl' = IF made /\ "device" \in cl THEN cl \cup {"queue"} ELSE cl
  /\ hpc' = "enqueueKernel"
  /\ UNCHANGED <<cmds, himg, sink, scene>>

\* queue.enqueueNDRangeKernel(kernel, NullRange, NDRange(W, H))
EnqueueKernel ==
  /\ hpc = "enqueueKernel"
  /\ \E accepted \in BOOLEAN :
       IF accepted /\ {"queue", "args"} \subseteq cl
       THEN cmds' = Append(cmds, "kernel") /\ cl' = cl \cup {"dispatched"}
       ELSE UNCHANGED <<cmds, cl>>
  /\ hpc' = "enqueueRead"
  /\ UNCHANGED <<himg, sink, scene>>

\* queue.enqueueReadBuffer(out_buf, CL_FALSE, ...): non-blocking
EnqueueRead ==
  /\ hpc = "enqueueRead"
  /\ \E accepted \in BOOLEAN :
       IF accepted /\ {"queue", "bufs"} \subseteq cl
       THEN cmds' = Append(cmds, "read") /\ cl' = cl \cup {"reading"}
       ELSE UNCHANGED <<cmds, cl>>
  /\ hpc' = "finish"
  /\ UNCHANGED <<himg, sink, scene>>

\* the commands of `queue` that cl::finish() waits for: it finishes
\* CommandQueue::getDefault(), which main() never enqueued anything on
FinishWaitsFor(queued) == <<>>

\* cl::finish() returns once the commands it waits for have completed
Finish ==
  /\ hpc = "finish"
  /\ FinishWaitsFor(cmds) = <<>>
  /\ hpc' = "sink"
  /\ UNCHANGED <<cl, cmds, himg, sink, scene>>

\* ImageOutput::create("result.png"), and return -1 when it fails
CreateSink ==
  /\ hpc = "sink"
  /\ \E made \in BOOLEAN : hpc' = IF made THEN "write" ELSE "exit"
  /\ UNCHANGED <<cl, cmds, himg, sink, scene>>

\* out->write_image(FLOAT, &img[0], ...) reads img; main() returns
WriteImage ==
  /\ hpc = "write"
  /\ sink' = [handed |-> TRUE, img |-> himg, pending |-> cmds]
  /\ hpc' = "done"
  /\ UNCHANGED <<cl, cmds, himg, scene>>

HostFrame == UNCHANGED <<isectVars, genVars, seqVars, devVars>>

NextHost ==
  \/ GetPlatform /\ HostFrame
  \/ GetDevice /\ HostFrame
  \/ BuildProgram /\ HostFrame
  \/ CreateKernel /\ HostFrame
  \/ AllocImage /\ HostFrame
  \/ CreateBuffers /\ HostFrame
  \/ SetArgs /\ HostFrame
  \/ CreateQueue /\ HostFrame
  \/ EnqueueKernel /\ HostFrame
  \/ EnqueueRead /\ HostFrame
  \/ Finish /\ HostFrame
  \/ CreateSink /\ HostFrame
  \/ WriteImage /\ HostFrame

\* the device works on the queue's commands while the process lives
NextCLDev == ~Exited /\ NextDev

SpecCL == InitCL /\ [][NextHost \/ GenerateScene \/ NextCLDev]_vars

\* every pixel of the buffer holds its resolved colour
Rendered(buf) ==
  \A p \in Pixels :
     Triple(buf, p[1], p[2])
       = KernelColor(scene, KernelScan(scene, 1, MakeRay(p[1], p[2]), -1))

\* C7: in a run whose dispatch and read-back were both accepted, when
\* write_image reads img no command of the dispatching queue is still
\* pending: the kernel's work items and the read-back have completed.
C7_BarrierBeforeSink ==
  (sink.handed /\ {"dispatched", "reading"} \subseteq cl) => sink.pending = <<>>

\* C8: no buffer with an unrendered pixel is handed to the image sink.
C8_NoPartialImage == sink.handed => Rendered(sink.img)

====
